---- MODULE Spec2Model ----
(***************************************************************************)
(* The IELTS test service: the Express server (server.js) and the          *)
(* serverless routes (api/order-test.js, api/test/[testId].js,             *)
(* api/test/[testId]/submit.js, api/job/[jobId].js).  The two are          *)
(* alternative deployments of the same contract with separate stores       *)
(* (module constants in server.js, properties of `global` in api/), so a   *)
(* run is a run of one of them: `deploy` is fixed by Init.                 *)
(*                                                                         *)
(* A handler runs without interruption up to its first await on an         *)
(* external call (Node's event loop runs one callback at a time); each     *)
(* action below is one such synchronous section.                           *)
(***************************************************************************)
EXTENDS Integers, Sequences, FiniteSets, TLC

VARIABLES
  deploy,       \* "server" (server.js) or "api" (the api/ routes)
  TESTS,        \* testId  -> Test
  ORDERS,       \* orderId -> Order
  SUBMISSIONS,  \* jobId   -> Job
  RATE,         \* client  -> sequence of timestamps (global.RATE, api/ only)
  now,          \* Date.now()
  nextId,       \* how many identifiers uuidv4() has handed out
  inflight,     \* requests suspended on an external call
  calls,        \* external calls issued so far (chat completion, transcription)
  recv,         \* the request received last
  last,         \* the response sent last
  accepted      \* client -> times at which its order-test requests went on to generation

vars == <<deploy, TESTS, ORDERS, SUBMISSIONS, RATE, now, nextId, inflight,
          calls, recv, last, accepted>>

---------------------------------------------------------------------------
\* Bounds of the model.

\* requests received in a run of the mixed workload
MaxReqs == 3
\* order-test requests received in a run of the burst workload
MaxBurst == 6
\* how often the clock advances
MaxTicks == 2
\* requests suspended on an external call at the same time
MaxInflight == 2

---------------------------------------------------------------------------
\* Program constants.

\* "max 5 free tests/day"
RateMax == 5
\* 24*60*60*1000 ms
DayMs == 24 * 60 * 60 * 1000
\* the clock advances in half days: a bucket can hold entries of which only
\* some have left the window
TickMs == DayMs \div 2

Clients == {"a", "b"}
\* the mixed workload's requests come from one client
MixedClients == {"a"}
TestTypes == {"writing", "speaking", "listening"}
DefaultLevel == "ielts-6"
CannedPrompt == "Write an essay (250+ words) on: The benefits of online education."

---------------------------------------------------------------------------
\* JavaScript values.

Undefined == [kind |-> "undefined"]
Null == [kind |-> "null"]
\* Object.prototype.constructor, which every object literal inherits
ObjectCtor == [kind |-> "function"]
\* names a plain object resolves through its prototype
ProtoKeys == {"constructor"}

EmptyMap == [k \in {} |-> Undefined]

\* v is truthy (of the values the stores and lookups can hold)
Truthy(v) == v.kind \notin {"undefined", "null"}

\* obj[key] on an object literal: an own property, else an inherited one
Lookup(store, key) ==
  IF key \in DOMAIN store THEN store[key]
  ELSE IF key \in ProtoKeys THEN ObjectCtor
  ELSE Undefined

\* obj[key] = v
Put(store, key, v) ==
  [k \in DOMAIN store \cup {key} |-> IF k = key THEN v ELSE store[k]]

\* v.test_id, "" for undefined (both are falsy)
TestIdOf(v) == IF v.kind = "object" THEN v.test_id ELSE ""
\* v.type, "" for undefined
TypeOf(v) == IF v.kind = "object" THEN v.type ELSE ""

\* uuidv4(): the n-th identifier handed out
Uuid(n) == "u" \o ToString(n)

TestObj(id, type, questions, parts) ==
  [kind |-> "object", test_id |-> id, type |-> type, level |-> DefaultLevel,
   questions |-> questions, parts |-> parts]

---------------------------------------------------------------------------
\* The chat-completion endpoint and JSON.parse.

\* A response text: JSON text carries the value it parses to.
Prose == [json |-> FALSE, raw |-> "prose", value |-> Undefined]
EmptyText == [json |-> FALSE, raw |-> "", value |-> Undefined]
JsonText(v) == [json |-> TRUE, raw |-> "json", value |-> v]

Throws == [outcome |-> "throw", text |-> EmptyText]
Non2xx == [outcome |-> "non2xx", text |-> EmptyText]
Ok(text) == [outcome |-> "ok", text |-> text]
NoReply == [outcome |-> "none", text |-> EmptyText]

\* what the model may answer to a generation prompt that quotes `id`
GenTexts(id) ==
  { Prose, EmptyText, JsonText(Null),
    JsonText(TestObj(id, "writing", <<"p1">>, << >>)),
    JsonText(TestObj("", "writing", <<"p1">>, << >>)),
    JsonText(TestObj("m1", "writing", <<"p1">>, << >>)),
    JsonText(TestObj("m1", "listening", << >>, << >>)) }
GenReplies(id) == {Throws, Non2xx} \cup {Ok(t) : t \in GenTexts(id)}

\* the burst workload's generation calls all fail (the fallback is stored)
BurstReplies(id) == {Throws}

BandJson == [kind |-> "object", band |-> "6.5"]
GradeReplies == {Throws, Non2xx, Ok(Prose), Ok(JsonText(BandJson))}
TranscribeOutcomes == {"throw", "non2xx", "ok"}

callOpenAIChat(reply) ==
  IF reply.outcome = "ok"
  THEN [threw |-> FALSE, text |-> reply.text]
  ELSE [threw |-> TRUE, text |-> EmptyText]

JSONparse(text) ==
  IF text.json THEN [threw |-> FALSE, value |-> text.value]
  ELSE [threw |-> TRUE, value |-> Undefined]

---------------------------------------------------------------------------
\* generateTest, given the identifier it drew and the reply to its call.

Fallback(id) == TestObj(id, "writing", <<CannedPrompt>>, << >>)

generateTest(type, id, reply) ==
  IF type = "writing" THEN
    LET ai == callOpenAIChat(reply)
        parsed == JSONparse(ai.text)
    IN IF ai.threw \/ parsed.threw THEN Fallback(id) ELSE parsed.value
  ELSE IF type = "speaking" THEN TestObj(id, "speaking", << >>, <<"part1", "part2", "part3">>)
  ELSE TestObj(id, type, << >>, << >>)

apiGenerateTest(type, id, reply) ==
  IF type = "writing" THEN
    LET ai == callOpenAIChat(reply)
        parsed == JSONparse(ai.text)
    IN IF ai.threw \/ parsed.threw THEN Fallback(id) ELSE parsed.value
  ELSE IF type = "speaking" THEN TestObj(id, "speaking", << >>, <<"part1", "part2">>)
  ELSE TestObj(id, type, << >>, << >>)

---------------------------------------------------------------------------
\* The rate limiter of api/order-test.js.

\* RATE[ip] || [], for client identifiers that name no inherited property
Bucket(rate, ip) == IF ip \in DOMAIN rate THEN rate[ip] ELSE << >>

\* RATE[ip].filter(t => now - t < 24*60*60*1000)
Prune(bucket, t) == SelectSeq(bucket, LAMBDA x : t - x < DayMs)

OverLimitOffByOne(bucket) == Len(bucket) > RateMax
\* RATE[ip].length >= 5
OverLimit(bucket) == Len(bucket) >= RateMax

RecordThenCheck(rate, ip, t) == Put(rate, ip, Append(Prune(Bucket(rate, ip), t), t))
\* global.RATE after the limiter ran for ip at time t
RateAfter(rate, ip, t) ==
  LET pruned == Prune(Bucket(rate, ip), t)
  IN IF OverLimit(pruned) THEN Put(rate, ip, pruned)
     ELSE Put(rate, ip, Append(pruned, t))

---------------------------------------------------------------------------
\* Requests and responses.

Req(n, route, ip, testType, tid, payload) ==
  [req |-> n, route |-> route, ip |-> ip, testType |-> testType, tid |-> tid,
   payload |-> payload]

\* A response: its route and status, the test type (order-test) or job type
\* (submit) of the request, and the external call whose outcome led to it.
Resp(route, status, kind, stage, upstream) ==
  [route |-> route, status |-> status, kind |-> kind, stage |-> stage,
   upstream |-> upstream]

\* How an external call went: it failed (threw or answered non-2xx), or it
\* answered text that is or is not JSON.
ReplyClass(reply) ==
  IF reply.outcome \in {"throw", "non2xx"} THEN "failed"
  ELSE IF reply.outcome = "none" THEN "none"
  ELSE IF reply.text.json THEN "json" ELSE "nonjson"

\* A suspended request.  `seen` is the bucket length its rate check found and
\* `at` the time of that check.
Pending(n, route, pc, ip, testType, orderId, id, tid, jobType, seen) ==
  [req |-> n, route |-> route, pc |-> pc, ip |-> ip, testType |-> testType,
   orderId |-> orderId, id |-> id, tid |-> tid, jobType |-> jobType, seen |-> seen,
   at |-> now]

Init ==
  /\ deploy \in {"server", "api"}
  /\ TESTS = EmptyMap
  /\ ORDERS = EmptyMap
  /\ SUBMISSIONS = EmptyMap
  /\ RATE = EmptyMap
  /\ now = 0
  /\ nextId = 0
  /\ inflight = {}
  /\ calls = 0
  /\ recv = Req(0, "none", "", "", "", "")
  /\ last = Resp("none", 0, "", "none", "none")
  /\ accepted = [c \in Clients |-> << >>]

---------------------------------------------------------------------------
\* POST /api/order-test.

\* The handler after generateTest returned `test`: `base` identifiers are
\* used up.  Reading test.test_id of null throws; the handler's catch
\* answers 500.
StoreOrder(orderId, tt, test, base, stage, upstream) ==
  IF test.kind = "null" THEN
    /\ last' = Resp("order", 500, tt, stage, upstream)
    /\ nextId' = base
    /\ UNCHANGED <<TESTS, ORDERS>>
  ELSE
    LET supplied == TestIdOf(test)
        testId == IF supplied # "" THEN supplied ELSE Uuid(base + 1)
    IN /\ nextId' = IF supplied # "" THEN base ELSE base + 1
       /\ TESTS' = Put(TESTS, testId, test)
       /\ ORDERS' = Put(ORDERS, orderId,
                        [kind |-> "object", orderId |-> orderId, testId |-> testId, test |-> test,
                         status |-> "ready", type |-> tt, level |-> DefaultLevel])
       /\ last' = Resp("order", 200, tt, stage, upstream)

\* The handler from `const orderId = uuidv4()` on, for a request that was
\* let through.  Only the writing branch of generateTest awaits a call; for
\* the other types `await generateTest(...)` resumes in the same turn of the
\* event loop, before any other request's handler can run.
Generate(n, ip, tt, seen) ==
  /\ accepted' = [accepted EXCEPT ![ip] = Append(@, now)]
  /\ IF tt = "writing" THEN
       /\ Cardinality(inflight) < MaxInflight
       /\ inflight' = inflight \cup
            {Pending(n, "order", "generate", ip, tt, Uuid(nextId + 1), Uuid(nextId + 2),
                     "", "", seen)}
       /\ calls' = calls + 1
       /\ nextId' = nextId + 2
       /\ UNCHANGED <<TESTS, ORDERS, last>>
     ELSE
       /\ StoreOrder(Uuid(nextId + 1), tt,
                     IF deploy = "server" THEN generateTest(tt, Uuid(nextId + 2), NoReply)
                     ELSE apiGenerateTest(tt, Uuid(nextId + 2), NoReply),
                     nextId + 2, "none", "none")
       /\ UNCHANGED <<inflight, calls>>

ServerOrderTest(ip, tt, budget) ==
  /\ deploy = "server"
  /\ recv.req < budget
  /\ recv' = Req(recv.req + 1, "order", ip, tt, "", "")
  /\ IF tt = "" THEN
       /\ last' = Resp("order", 400, tt, "none", "none")
       /\ UNCHANGED <<TESTS, ORDERS, nextId, inflight, calls, accepted>>
     ELSE Generate(recv.req + 1, ip, tt, 0)
  /\ UNCHANGED <<deploy, SUBMISSIONS, RATE, now>>

ApiOrderTest(ip, tt, budget) ==
  /\ deploy = "api"
  /\ recv.req < budget
  /\ recv' = Req(recv.req + 1, "order", ip, tt, "", "")
  /\ IF tt = "" THEN
       /\ last' = Resp("order", 400, tt, "none", "none")
       /\ UNCHANGED <<TESTS, ORDERS, RATE, nextId, inflight, calls, accepted>>
     ELSE
       LET pruned == Prune(Bucket(RATE, ip), now)
       IN /\ RATE' = RateAfter(RATE, ip, now)
          /\ IF OverLimit(pruned) THEN
               /\ last' = Resp("order", 429, tt, "none", "none")
               /\ UNCHANGED <<TESTS, ORDERS, nextId, inflight, calls, accepted>>
             ELSE Generate(recv.req + 1, ip, tt, Len(pruned))
  /\ UNCHANGED <<deploy, SUBMISSIONS, now>>

\* The chat-completion call of a writing order settles.
OrderTestResume(d, burst) ==
  /\ deploy = d
  /\ \E r \in inflight :
       /\ r.route = "order"
       /\ \E reply \in (IF burst THEN BurstReplies(r.id) ELSE GenReplies(r.id)) :
            StoreOrder(r.orderId, r.testType,
                       IF d = "server" THEN generateTest(r.testType, r.id, reply)
                       ELSE apiGenerateTest(r.testType, r.id, reply),
                       nextId, "generate", ReplyClass(reply))
       /\ inflight' = inflight \ {r}
  /\ UNCHANGED <<deploy, SUBMISSIONS, RATE, now, calls, recv, accepted>>

ServerOrderTestResume(burst) == OrderTestResume("server", burst)
ApiOrderTestResume(burst) == OrderTestResume("api", burst)

\* Date.now() moves on.
Tick ==
  /\ now < MaxTicks * TickMs
  /\ now' = now + TickMs
  /\ UNCHANGED <<deploy, TESTS, ORDERS, SUBMISSIONS, RATE, nextId, inflight, calls,
                 recv, last, accepted>>

BurstNext ==
  \/ \E ip \in Clients : ServerOrderTest(ip, "writing", MaxBurst)
  \/ \E ip \in Clients : ApiOrderTest(ip, "writing", MaxBurst)
  \/ ServerOrderTestResume(TRUE)
  \/ ApiOrderTestResume(TRUE)
  \/ Tick

BurstSpec == Init /\ [][BurstNext]_vars

RaceInit == Init /\ deploy = "api"
RaceNext ==
  \/ \E ip \in Clients : ApiOrderTest(ip, "writing", MaxBurst)
  \/ ApiOrderTestResume(TRUE)
  \/ Tick
RaceSpec == RaceInit /\ [][RaceNext]_vars /\ WF_vars(RaceNext)

---------------------------------------------------------------------------
\* POST /api/test/:testId/submit.

GradeResultSwallowed(reply) ==
  LET ai == callOpenAIChat(reply)
      parsed == JSONparse(ai.text)
  IN [threw |-> FALSE,
      result |-> IF ai.threw \/ parsed.threw THEN [kind |-> "raw", raw |-> ai.text.raw]
                 ELSE parsed.value]
\* evalResp = await callOpenAIChat(...); try { JSON.parse } catch { {raw} }
GradeResult(reply) ==
  LET ai == callOpenAIChat(reply)
      parsed == JSONparse(ai.text)
  IN IF ai.threw THEN [threw |-> TRUE, result |-> Undefined]
     ELSE [threw |-> FALSE,
           result |-> IF parsed.threw THEN [kind |-> "raw", raw |-> ai.text.raw]
                      ELSE parsed.value]

MarkGradedToggle(orders, tid) ==
  [o \in DOMAIN orders |->
     IF orders[o].testId = tid
     THEN [orders[o] EXCEPT !.status = IF @ = "graded" THEN "ready" ELSE "graded"]
     ELSE orders[o]]
\* Object.values(ORDERS).forEach(o => { if (o.testId === tid) o.status = 'graded'; })
MarkGraded(orders, tid) ==
  [o \in DOMAIN orders |->
     IF orders[o].testId = tid THEN [orders[o] EXCEPT !.status = "graded"]
     ELSE orders[o]]

Job(jobId, tid, type, result) ==
  [kind |-> "object", jobId |-> jobId, testId |-> tid, type |-> type,
   input |-> IF type = "speaking" THEN "transcript" ELSE "answers", result |-> result]

SubmitIds == DOMAIN TESTS \cup ProtoKeys \cup {"nope"}
JobIds == DOMAIN SUBMISSIONS \cup {"nope"}
Payloads == {"json", "audio"}

ServerSubmit(tid, payload) ==
  /\ deploy = "server"
  /\ recv.req < MaxReqs
  /\ recv' = Req(recv.req + 1, "submit", "", "", tid, payload)
  /\ LET test == Lookup(TESTS, tid)
     IN IF ~Truthy(test) THEN
          /\ last' = Resp("submit", 404, "", "none", "none")
          /\ UNCHANGED <<inflight, calls>>
        ELSE IF payload = "audio" THEN
          /\ Cardinality(inflight) < MaxInflight
          /\ inflight' = inflight \cup
               {Pending(recv.req + 1, "submit", "transcribe", "", "", "", "", tid, "speaking", 0)}
          /\ calls' = calls + 1
          /\ UNCHANGED last
        ELSE IF TypeOf(test) = "writing" THEN
          /\ Cardinality(inflight) < MaxInflight
          /\ inflight' = inflight \cup
               {Pending(recv.req + 1, "submit", "grade", "", "", "", "", tid, "writing", 0)}
          /\ calls' = calls + 1
          /\ UNCHANGED last
        ELSE
          /\ last' = Resp("submit", 400, "", "none", "none")
          /\ UNCHANGED <<inflight, calls>>
  /\ UNCHANGED <<deploy, TESTS, ORDERS, SUBMISSIONS, RATE, now, nextId, accepted>>

\* The transcription call settles: on success the grading call is issued.
ServerSubmitTranscribed ==
  /\ deploy = "server"
  /\ \E r \in inflight :
       /\ r.route = "submit"
       /\ r.pc = "transcribe"
       /\ \E out \in TranscribeOutcomes :
            IF out = "ok" THEN
              /\ inflight' = (inflight \ {r}) \cup {[r EXCEPT !.pc = "grade"]}
              /\ calls' = calls + 1
              /\ UNCHANGED last
            ELSE
              /\ inflight' = inflight \ {r}
              /\ last' = Resp("submit", 500, r.jobType, "transcribe", "failed")
              /\ UNCHANGED calls
  /\ UNCHANGED <<deploy, TESTS, ORDERS, SUBMISSIONS, RATE, now, nextId, recv, accepted>>

\* The grading call settles.
ServerSubmitGraded ==
  /\ deploy = "server"
  /\ \E r \in inflight :
       /\ r.route = "submit"
       /\ r.pc = "grade"
       /\ inflight' = inflight \ {r}
       /\ \E reply \in GradeReplies :
            LET g == GradeResult(reply)
                jobId == Uuid(nextId + 1)
            IN IF g.threw THEN
                 /\ last' = Resp("submit", 500, r.jobType, "grade", ReplyClass(reply))
                 /\ UNCHANGED <<SUBMISSIONS, ORDERS, nextId>>
               ELSE
                 /\ nextId' = nextId + 1
                 /\ SUBMISSIONS' = Put(SUBMISSIONS, jobId, Job(jobId, r.tid, r.jobType, g.result))
                 /\ ORDERS' = MarkGraded(ORDERS, r.tid)
                 /\ last' = Resp("submit", 200, r.jobType, "grade", ReplyClass(reply))
  /\ UNCHANGED <<deploy, TESTS, RATE, now, calls, recv, accepted>>

ApiSubmit(tid, payload) ==
  /\ deploy = "api"
  /\ recv.req < MaxReqs
  /\ recv' = Req(recv.req + 1, "submit", "", "", tid, payload)
  /\ LET test == Lookup(TESTS, tid)
     IN IF ~Truthy(test) THEN
          /\ last' = Resp("submit", 404, "", "none", "none")
          /\ UNCHANGED <<inflight, calls>>
        ELSE IF payload = "audio" THEN
          /\ last' = Resp("submit", 400, "", "none", "none")
          /\ UNCHANGED <<inflight, calls>>
        ELSE IF TypeOf(test) = "writing" THEN
          /\ Cardinality(inflight) < MaxInflight
          /\ inflight' = inflight \cup
               {Pending(recv.req + 1, "submit", "grade", "", "", "", "", tid, "writing", 0)}
          /\ calls' = calls + 1
          /\ UNCHANGED last
        ELSE
          /\ last' = Resp("submit", 400, "", "none", "none")
          /\ UNCHANGED <<inflight, calls>>
  /\ UNCHANGED <<deploy, TESTS, ORDERS, SUBMISSIONS, RATE, now, nextId, accepted>>

\* The grading call settles.  The job identifier,
\* (Math.random()+Date.now()).toString(36), is taken to be fresh.
ApiSubmitGraded ==
  /\ deploy = "api"
  /\ \E r \in inflight :
       /\ r.route = "submit"
       /\ r.pc = "grade"
       /\ inflight' = inflight \ {r}
       /\ \E reply \in GradeReplies :
            LET g == GradeResult(reply)
                jobId == Uuid(nextId + 1)
            IN IF g.threw THEN
                 /\ last' = Resp("submit", 500, r.jobType, "grade", ReplyClass(reply))
                 /\ UNCHANGED <<SUBMISSIONS, nextId>>
               ELSE
                 /\ nextId' = nextId + 1
                 /\ SUBMISSIONS' = Put(SUBMISSIONS, jobId, Job(jobId, r.tid, r.jobType, g.result))
                 /\ last' = Resp("submit", 200, r.jobType, "grade", ReplyClass(reply))
  /\ UNCHANGED <<deploy, TESTS, ORDERS, RATE, now, calls, recv, accepted>>

---------------------------------------------------------------------------
\* The lookups: GET /api/test/:testId, GET /api/job/:jobId, GET /api/my-tests.

GetTest(tid) ==
  /\ recv.req < MaxReqs
  /\ recv' = Req(recv.req + 1, "test", "", "", "", "")
  /\ last' = Resp("test", IF Truthy(Lookup(TESTS, tid)) THEN 200 ELSE 404, "", "none", "none")
  /\ UNCHANGED <<deploy, TESTS, ORDERS, SUBMISSIONS, RATE, now, nextId, inflight, calls,
                 accepted>>

GetJob(jid) ==
  /\ recv.req < MaxReqs
  /\ recv' = Req(recv.req + 1, "job", "", "", "", "")
  /\ last' = Resp("job", IF Truthy(Lookup(SUBMISSIONS, jid)) THEN 200 ELSE 404, "", "none", "none")
  /\ UNCHANGED <<deploy, TESTS, ORDERS, SUBMISSIONS, RATE, now, nextId, inflight, calls,
                 accepted>>

MyTests ==
  /\ deploy = "server"
  /\ recv.req < MaxReqs
  /\ recv' = Req(recv.req + 1, "my-tests", "", "", "", "")
  /\ last' = Resp("my-tests", 200, "", "none", "none")
  /\ UNCHANGED <<deploy, TESTS, ORDERS, SUBMISSIONS, RATE, now, nextId, inflight, calls,
                 accepted>>

---------------------------------------------------------------------------
\* The mixed workload: every route, a few requests.

Next ==
  \/ \E ip \in MixedClients, tt \in TestTypes \cup {""} : ServerOrderTest(ip, tt, MaxReqs)
  \/ \E ip \in MixedClients, tt \in TestTypes \cup {""} : ApiOrderTest(ip, tt, MaxReqs)
  \/ ServerOrderTestResume(FALSE)
  \/ ApiOrderTestResume(FALSE)
  \/ \E tid \in SubmitIds, payload \in Payloads : ServerSubmit(tid, payload)
  \/ ServerSubmitTranscribed
  \/ ServerSubmitGraded
  \/ \E tid \in SubmitIds, payload \in Payloads : ApiSubmit(tid, payload)
  \/ ApiSubmitGraded
  \/ \E tid \in SubmitIds : GetTest(tid)
  \/ \E jid \in JobIds : GetJob(jid)
  \/ MyTests

Spec == Init /\ [][Next]_vars

---------------------------------------------------------------------------
\* Properties.

\* the most order-test requests of one client that went on to generation
\* within a trailing 24-hour window
WindowMax(times) ==
  LET count(i) == Cardinality({j \in 1..i : times[i] - times[j] < DayMs})
  IN IF times = << >> THEN 0
     ELSE CHOOSE m \in 0..Len(times) :
            /\ \E i \in 1..Len(times) : count(i) = m
            /\ \A i \in 1..Len(times) : count(i) <= m

\* the entries of a bucket that are younger than 24 hours at time t
InWindow(bucket, t) == {i \in 1..Len(bucket) : t - bucket[i] < DayMs}

\* the step answered a request
Responded == recv'.req - Cardinality(inflight') > recv.req - Cardinality(inflight)

\* C1: for every client, at most 5 order-test requests are accepted in any
\* trailing 24-hour window (the 6th within the window is rejected).
C1_AtMostFivePerDay ==
  \A ip \in Clients : WindowMax(accepted[ip]) <= RateMax

\* C2: a successful submit against a testId leaves every Order of that testId
\* graded and every other Order as it was.
C2_SubmitGradesOrders ==
  [][\A r \in inflight \ inflight' :
       (r.route = "submit" /\ Responded /\ last'.status = 200) =>
         /\ DOMAIN ORDERS' = DOMAIN ORDERS
         /\ \A o \in DOMAIN ORDERS' :
              IF ORDERS'[o].testId = r.tid THEN ORDERS'[o].status = "graded"
              ELSE ORDERS'[o] = ORDERS[o]]_vars

\* C3: once TESTS[testId] is stored, no later request replaces or changes it.
C3_TestNeverReplaced ==
  [][\A t \in DOMAIN TESTS : t \in DOMAIN TESTS' /\ TESTS'[t] = TESTS[t]]_vars

\* C4: a writing order-test request that went on to generation ends with a
\* success response and a Test stored under the returned testId, whatever the
\* chat-completion call does; after a failed call or non-JSON text the stored
\* Test is the fallback with its one canned question.
C4_WritingNeverHardFails ==
  [][\A r \in inflight \ inflight' :
       (r.route = "order" /\ r.testType = "writing") =>
         /\ last'.status = 200
         /\ r.orderId \in DOMAIN ORDERS'
         /\ ORDERS'[r.orderId].testId \in DOMAIN TESTS'
         /\ TESTS'[ORDERS'[r.orderId].testId] = ORDERS'[r.orderId].test
         /\ last'.upstream \in {"failed", "nonjson"} =>
              /\ ORDERS'[r.orderId].test.type = "writing"
              /\ ORDERS'[r.orderId].test.questions = <<CannedPrompt>>]_vars

\* C5: a submit for a testId that is not in the Test store is answered 404 and
\* has no side effect: no Job, no Order change, no external call.
C5_UnknownTestNotFound ==
  [][(recv'.req # recv.req /\ recv'.route = "submit" /\ recv'.tid \notin DOMAIN TESTS) =>
       /\ last'.route = "submit"
       /\ last'.status = 404
       /\ inflight' = inflight
       /\ calls' = calls
       /\ SUBMISSIONS' = SUBMISSIONS
       /\ ORDERS' = ORDERS]_vars

\* C6: a submit whose transcription or grading call fails ends with 500 and
\* persists nothing: a submit changes the Jobs and the Orders only in the step
\* that answers 200 after a grading call that did not fail, so neither the
\* receipt of the request nor a successful transcription leaves anything behind.
C6_FailedSubmitPersistsNothing ==
  [][/\ (recv'.req # recv.req /\ recv'.route = "submit") =>
          (SUBMISSIONS' = SUBMISSIONS /\ ORDERS' = ORDERS)
     /\ \A r \in inflight \ inflight' :
          r.route = "submit" =>
            /\ (Responded /\ last'.upstream = "failed") =>
                 (last'.route = "submit" /\ last'.status = 500)
            /\ ~(Responded /\ last'.status = 200) =>
                 (SUBMISSIONS' = SUBMISSIONS /\ ORDERS' = ORDERS)]_vars

\* a speaking submit was transcribed, its grading call failed, it was answered
\* 500, and there is no Job and the Order is still ready
C6_Witness ==
  /\ last = Resp("submit", 500, "speaking", "grade", "failed")
  /\ SUBMISSIONS = EmptyMap
  /\ calls >= 2
  /\ \E o \in DOMAIN ORDERS : ORDERS[o].status = "ready"

\* C7: a submit against a stored Test whose type is neither writing nor
\* speaking is rejected as unsupported for every payload, without an external
\* call, a Job or an Order change.
C7_OtherTypeUnsupported ==
  [][(/\ recv'.req # recv.req
      /\ recv'.route = "submit"
      /\ recv'.tid \in DOMAIN TESTS
      /\ TypeOf(TESTS[recv'.tid]) \notin {"writing", "speaking"}) =>
       /\ last'.route = "submit"
       /\ last'.status = 400
       /\ inflight' = inflight
       /\ calls' = calls
       /\ SUBMISSIONS' = SUBMISSIONS
       /\ ORDERS' = ORDERS]_vars

\* C8: an Order is created ready, stays in the store, and once graded is
\* never ready again.
C8_StatusMonotonic ==
  [][/\ \A o \in DOMAIN ORDERS :
          /\ o \in DOMAIN ORDERS'
          /\ ORDERS[o].status = "graded" => ORDERS'[o].status = "graded"
          /\ ORDERS'[o].status \in {"ready", "graded"}
     /\ \A o \in DOMAIN ORDERS' \ DOMAIN ORDERS : ORDERS'[o].status = "ready"]_vars

\* an Order was graded, and a later order-test created a ready Order for the
\* same testId
C8_Witness ==
  \E o1, o2 \in DOMAIN ORDERS :
    /\ ORDERS[o1].testId = ORDERS[o2].testId
    /\ ORDERS[o1].status = "graded"
    /\ ORDERS[o2].status = "ready"

====
